---- MODULE Spec2Model ----
(***************************************************************************)
(* The price selection of calculatePrices (Pricing module), as described   *)
(* by the repository's "Prices Calculation" document, over the pricing     *)
(* schema (currency, money_amount, price_list, price_set_money_amount,     *)
(* rule_type, price_rule, price_list_rule, price_list_rule_value).         *)
(*                                                                         *)
(* The data tables are read-only during a call.  A call is the steps       *)
(* calculatePrices (take the request), resolvePriceSet (one price set of   *)
(* the batch, in any order) and returnPrices (hand the array back).        *)
(*                                                                         *)
(* With it, DiscountConditionService (upsertCondition, remove) over the    *)
(* discount and discount_condition tables, and the createShippingMethods   *)
(* workflow step.                                                          *)
(***************************************************************************)
EXTENDS Integers, Sequences, FiniteSets, TLC

VARIABLES
    rule_type,                \* table rule_type: id -> [rule_attribute, default_priority]
    price_list,               \* table price_list (+ its rules): id -> row
    price_set_money_amount,   \* table price_set_money_amount joined with money_amount and price_rule, in insertion order
    price_set_ids,            \* the requested price set ids, in request order
    context,                  \* the calculation context: key -> value
    now,                      \* the evaluation instant
    pc,                       \* "idle" | "resolving" | "done" | "failed"
    pending,                  \* positions of price_set_ids not yet resolved
    prices,                   \* position -> the price object built for it
    discount,                 \* table discount: id -> [id, rule_id]
    discount_condition,       \* table discount_condition with its resources: id -> row
    request,                  \* the arguments of upsertCondition: [discountIdOrDiscount, data]
    outcome,                  \* the last call of DiscountConditionService: what it did and how it ended
    step_arguments,           \* the arguments of the createShippingMethods step: [context, data]
    service,                  \* the shipping method service: its methods and the calls made to it
    step_result               \* how the createShippingMethods step ended and what it returned

vars == <<rule_type, price_list, price_set_money_amount, price_set_ids,
          context, now, pc, pending, prices,
          discount, discount_condition, request, outcome,
          step_arguments, service, step_result>>

data == <<rule_type, price_list, price_set_money_amount, price_set_ids, context, now>>

\* The state of the pricing call, of DiscountConditionService and of the
\* createShippingMethods step.
pricing == <<data, pc, pending, prices>>
discounts == <<discount, discount_condition, request, outcome>>
workflow == <<step_arguments, service, step_result>>

(***************************************************************************)
(* Bounds of the model.                                                    *)
(***************************************************************************)
\* Instants are 0..MaxTime.
MaxTime == 2
\* PriceRule.priority and RuleType.default_priority range over 0..MaxPriority.
MaxPriority == 1

Instants == 0..MaxTime
Priorities == 0..MaxPriority

(***************************************************************************)
(* null                                                                    *)
(***************************************************************************)
\* null of a text column or of a string field of the price object
Null == "null"
\* null of a numeric or timestamp column, and of a numeric field of the price object
NullNum == -1

(***************************************************************************)
(* Schema rows                                                             *)
(***************************************************************************)
RuleType(attribute, default_priority) ==
    [rule_attribute |-> attribute, default_priority |-> default_priority]

\* rules: rule_type id -> the set of values of the PriceListRule of that type
PriceList(status, type, starts_at, ends_at, rules) ==
    [status |-> status, type |-> type, starts_at |-> starts_at, ends_at |-> ends_at,
     number_rules |-> Cardinality(DOMAIN rules), rules |-> rules]

\* price_rules: rule_type id -> [value, priority] of the PriceRule of that type
PriceSetMoneyAmount(id, price_set_id, currency_code, amount, price_list_id, price_rules) ==
    [id |-> id, price_set_id |-> price_set_id, currency_code |-> currency_code,
     amount |-> amount, min_quantity |-> NullNum, max_quantity |-> NullNum,
     number_rules |-> Cardinality(DOMAIN price_rules),
     price_list_id |-> price_list_id, price_rules |-> price_rules]

PriceRule(value, priority) == [value |-> value, priority |-> priority]

NoRules == <<>>

(***************************************************************************)
(* Rule Matcher                                                            *)
(***************************************************************************)
CURRENCY_CODE == "currency_code"

\* ContextRules with currency_code taken as a rule when a rule type has it
\* as rule_attribute.
ContextRules_WithCurrency(ctx) ==
    {k \in DOMAIN ctx : \E rt \in DOMAIN rule_type : rule_type[rt].rule_attribute = k}

\* ContextRules with every key but currency_code taken as a rule.
ContextRules_AllKeys(ctx) == DOMAIN ctx \ {CURRENCY_CODE}

\* The context keys that are rules: every key but currency_code that is the
\* rule_attribute of a rule type.
ContextRules(ctx) ==
    {k \in DOMAIN ctx \ {CURRENCY_CODE} :
        \E rt \in DOMAIN rule_type : rule_type[rt].rule_attribute = k}

Satisfied(constraint, ctx) ==
    /\ constraint.rule_attribute \in ContextRules(ctx)
    /\ ctx[constraint.rule_attribute] \in constraint.allowed_values

matches(constraints, ctx) ==
    [fullMatch |-> \A c \in constraints : Satisfied(c, ctx),
     matchedCount |-> Cardinality({c \in constraints : Satisfied(c, ctx)})]

PriceListConstraints(pl) ==
    {[rule_attribute |-> rule_type[rt].rule_attribute, allowed_values |-> pl.rules[rt]] :
        rt \in DOMAIN pl.rules}

PriceRuleConstraints(psma) ==
    {[rule_attribute |-> rule_type[rt].rule_attribute,
      allowed_values |-> {psma.price_rules[rt].value}] : rt \in DOMAIN psma.price_rules}

(***************************************************************************)
(* Price List Validator                                                    *)
(***************************************************************************)
\* The status of the price list is active: a draft price list is not used.
IsActive(priceList) == priceList.status = "active"

\* InWindow with the start and end dates themselves excluded.
InWindow_Exclusive(priceList, t) ==
    /\ (priceList.starts_at # NullNum => t > priceList.starts_at)
    /\ (priceList.ends_at # NullNum => t < priceList.ends_at)

\* The instant is between the start and end dates of the price list.
InWindow(priceList, t) ==
    /\ (priceList.starts_at # NullNum => ~(t < priceList.starts_at))
    /\ (priceList.ends_at # NullNum => ~(t > priceList.ends_at))

\* RulesSatisfied with one satisfied rule being enough.
RulesSatisfied_AnyRule(priceList, ctx) ==
    LET m == matches(PriceListConstraints(priceList), ctx)
    IN  PriceListConstraints(priceList) = {} \/ m.matchedCount > 0

\* The rules of the price list satisfy the rules of the context.
RulesSatisfied(priceList, ctx) == matches(PriceListConstraints(priceList), ctx).fullMatch

isValid(priceList, ctx, t) ==
    /\ IsActive(priceList)
    /\ InWindow(priceList, t)
    /\ RulesSatisfied(priceList, ctx)

(***************************************************************************)
(* The selected row: a money amount with its price list, or nothing        *)
(***************************************************************************)
NoPrice ==
    [id |-> Null, amount |-> NullNum, currency_code |-> Null,
     price_list_id |-> Null, price_list_type |-> Null,
     min_quantity |-> NullNum, max_quantity |-> NullNum]

PriceRow(psma) ==
    [id |-> psma.id, amount |-> psma.amount, currency_code |-> psma.currency_code,
     price_list_id |-> psma.price_list_id,
     price_list_type |-> IF psma.price_list_id \in DOMAIN price_list
                         THEN price_list[psma.price_list_id].type ELSE Null,
     min_quantity |-> psma.min_quantity, max_quantity |-> psma.max_quantity]

\* InCurrency without the currency filter.
InCurrency_AnyCurrency(priceSetId, ctx) ==
    SelectSeq(price_set_money_amount, LAMBDA m : m.price_set_id = priceSetId)

\* The rows of a price set in the context currency, in insertion order.
InCurrency(priceSetId, ctx) ==
    SelectSeq(price_set_money_amount,
              LAMBDA m : m.price_set_id = priceSetId /\ m.currency_code = ctx[CURRENCY_CODE])

Range(s) == {s[i] : i \in DOMAIN s}

(***************************************************************************)
(* Calculated Price Selector                                               *)
(***************************************************************************)
\* CalculatedCandidates without the validity check of the price list.
CalculatedCandidates_AnyList(priceSetId, ctx, t) ==
    SelectSeq(InCurrency(priceSetId, ctx), LAMBDA m : m.price_list_id \in DOMAIN price_list)

\* CalculatedCandidates with the money amounts of no price list among them.
CalculatedCandidates_WithStandalone(priceSetId, ctx, t) ==
    SelectSeq(InCurrency(priceSetId, ctx),
              LAMBDA m : \/ m.price_list_id = Null
                         \/ /\ m.price_list_id \in DOMAIN price_list
                            /\ isValid(price_list[m.price_list_id], ctx, t))

\* The money amounts of the valid price lists of the price set.
CalculatedCandidates(priceSetId, ctx, t) ==
    SelectSeq(InCurrency(priceSetId, ctx),
              LAMBDA m : /\ m.price_list_id \in DOMAIN price_list
                         /\ isValid(price_list[m.price_list_id], ctx, t))

\* LowestAmount with the sort descending.
LowestAmount_Descending(candidates) ==
    candidates[CHOOSE i \in DOMAIN candidates :
                  \A j \in DOMAIN candidates :
                      \/ candidates[i].amount > candidates[j].amount
                      \/ candidates[i].amount = candidates[j].amount /\ i <= j]

\* The first row of the candidates sorted by amount ascending (a stable sort).
LowestAmount(candidates) ==
    candidates[CHOOSE i \in DOMAIN candidates :
                  \A j \in DOMAIN candidates :
                      \/ candidates[i].amount < candidates[j].amount
                      \/ candidates[i].amount = candidates[j].amount /\ i <= j]

selectCalculated(priceSetId, ctx, t) ==
    LET candidates == CalculatedCandidates(priceSetId, ctx, t)
    IN  IF candidates = <<>> THEN NoPrice ELSE PriceRow(LowestAmount(candidates))

(***************************************************************************)
(* Original Price Selector                                                 *)
(***************************************************************************)
\* The money amounts of the price set that belong to no price list.
Standalone(priceSetId, ctx) ==
    {m \in Range(InCurrency(priceSetId, ctx)) : m.price_list_id = Null}

MaxOf(S) == CHOOSE x \in S : \A y \in S : y <= x

\* MatchedCount that counts nothing unless every rule is satisfied.
MatchedCount_FullOnly(psma, ctx) ==
    IF matches(PriceRuleConstraints(psma), ctx).fullMatch THEN psma.number_rules ELSE 0

MatchedCount(psma, ctx) == matches(PriceRuleConstraints(psma), ctx).matchedCount

\* The rules of the money amount are the rules of the context, no more, no less.
ExactMatch(psma, ctx) ==
    /\ psma.number_rules = Cardinality(ContextRules(ctx))
    /\ matches(PriceRuleConstraints(psma), ctx).fullMatch
    /\ MatchedCount(psma, ctx) = Cardinality(ContextRules(ctx))

PriorityOf(psma) == MaxOf({psma.price_rules[rt].priority : rt \in DOMAIN psma.price_rules})

DefaultPriorityOf(psma) ==
    MaxOf({rule_type[rt].default_priority : rt \in DOMAIN psma.price_rules})

\* SortsBefore with number_rules ascending.
SortsBefore_Ascending(a, b) ==
    \/ a.number_rules < b.number_rules
    \/ /\ a.number_rules = b.number_rules
       /\ \/ PriorityOf(a) > PriorityOf(b)
          \/ /\ PriorityOf(a) = PriorityOf(b)
             /\ DefaultPriorityOf(a) > DefaultPriorityOf(b)

\* SortsBefore with priority taking precedence over number_rules.
SortsBefore_PriorityFirst(a, b) ==
    \/ PriorityOf(a) > PriorityOf(b)
    \/ /\ PriorityOf(a) = PriorityOf(b)
       /\ \/ a.number_rules > b.number_rules
          \/ /\ a.number_rules = b.number_rules
             /\ DefaultPriorityOf(a) > DefaultPriorityOf(b)

\* SortsBefore with default_priority taking precedence over priority.
SortsBefore_DefaultPriorityFirst(a, b) ==
    \/ a.number_rules > b.number_rules
    \/ /\ a.number_rules = b.number_rules
       /\ \/ DefaultPriorityOf(a) > DefaultPriorityOf(b)
          \/ /\ DefaultPriorityOf(a) = DefaultPriorityOf(b)
             /\ PriorityOf(a) > PriorityOf(b)

\* a sorts before b: number_rules, then priority, then default_priority, descending
SortsBefore(a, b) ==
    \/ a.number_rules > b.number_rules
    \/ /\ a.number_rules = b.number_rules
       /\ \/ PriorityOf(a) > PriorityOf(b)
          \/ /\ PriorityOf(a) = PriorityOf(b)
             /\ DefaultPriorityOf(a) > DefaultPriorityOf(b)

\* PartialMatches that keeps every money amount with rules, satisfied or not.
PartialMatches_AnyRules(priceSetId, ctx) ==
    {m \in Standalone(priceSetId, ctx) : m.number_rules > 0}

\* The money amounts satisfying some combination of the rules of the context.
PartialMatches(priceSetId, ctx) ==
    {m \in Standalone(priceSetId, ctx) : MatchedCount(m, ctx) > 0}

\* The default money amounts: the ones having no rules applied to them.
Defaults(priceSetId, ctx) ==
    {m \in Standalone(priceSetId, ctx) : m.number_rules = 0}

\* DefaultSelection that takes any of several default money amounts.
DefaultSelection_Any(priceSetId, ctx) == Defaults(priceSetId, ctx)

\* The default money amount; an ambiguous default is no match.
DefaultSelection(priceSetId, ctx) ==
    IF Cardinality(Defaults(priceSetId, ctx)) = 1 THEN Defaults(priceSetId, ctx) ELSE {}

ExactSelection(priceSetId, ctx) ==
    {m \in Standalone(priceSetId, ctx) : ExactMatch(m, ctx)}

\* The rows that sort first among the partial matches.
RankedSelection(priceSetId, ctx) ==
    LET survivors == PartialMatches(priceSetId, ctx)
    IN  {m \in survivors : \A n \in survivors : ~SortsBefore(n, m)}

\* selectOriginal without the exact match step.
selectOriginal_RankedOnly(priceSetId, ctx) ==
    IF ContextRules(ctx) = {}
    THEN DefaultSelection(priceSetId, ctx)
    ELSE RankedSelection(priceSetId, ctx)

\* The rows selectOriginal may return; empty when it returns nothing.  Rows
\* that the ordering does not separate are returned in an unspecified order.
selectOriginal(priceSetId, ctx) ==
    IF ContextRules(ctx) = {}
    THEN DefaultSelection(priceSetId, ctx)
    ELSE IF ExactSelection(priceSetId, ctx) # {}
         THEN ExactSelection(priceSetId, ctx)
         ELSE RankedSelection(priceSetId, ctx)

OriginalChoices(priceSetId, ctx) ==
    IF selectOriginal(priceSetId, ctx) = {}
    THEN {NoPrice}
    ELSE {PriceRow(m) : m \in selectOriginal(priceSetId, ctx)}

(***************************************************************************)
(* Price Assembler                                                         *)
(***************************************************************************)
\* parseInt(x || "") || null
ParseInt(x) == IF x = NullNum \/ x = 0 THEN NullNum ELSE x

\* CalculatedPrice without the fallback to the original price.
CalculatedPrice_NoFallback(calculated, original) == calculated

\* calculatedPrice: the selected calculated price, else the original price
CalculatedPrice(calculated, original) ==
    IF calculated = NoPrice THEN original ELSE calculated

\* OriginalPrice without the override rule.
OriginalPrice_NoOverride(calculated, original) == original

\* originalPrice: the calculated price when its price list is of type override
OriginalPrice(calculated, original) ==
    IF calculated # NoPrice /\ calculated.price_list_type = "override"
    THEN calculated ELSE original

PriceDetails(row) ==
    [money_amount_id |-> row.id,
     price_list_id |-> row.price_list_id,
     price_list_type |-> row.price_list_type,
     min_quantity |-> ParseInt(row.min_quantity),
     max_quantity |-> ParseInt(row.max_quantity)]

PriceObject(priceSetId, calculatedPrice, originalPrice) ==
    [id |-> priceSetId,
     is_calculated_price_price_list |-> calculatedPrice.price_list_id # Null,
     calculated_amount |-> ParseInt(calculatedPrice.amount),
     is_original_price_price_list |-> originalPrice.price_list_id # Null,
     original_amount |-> ParseInt(originalPrice.amount),
     currency_code |-> calculatedPrice.currency_code,
     calculated_price |-> PriceDetails(calculatedPrice),
     original_price |-> PriceDetails(originalPrice)]

assemble(priceSetId, ctx, t, original) ==
    LET calculated == selectCalculated(priceSetId, ctx, t)
    IN  PriceObject(priceSetId,
                    CalculatedPrice(calculated, original),
                    OriginalPrice(calculated, original))

(***************************************************************************)
(* The call                                                                *)
(***************************************************************************)
Positions == DOMAIN price_set_ids

\* calculatePrices that fails when a price set of the call has no money amount.
calculatePrices_FailOnMissing ==
    /\ pc = "idle"
    /\ IF /\ CURRENCY_CODE \in DOMAIN context
          /\ \A i \in Positions : \E m \in Range(price_set_money_amount) :
                m.price_set_id = price_set_ids[i]
       THEN pc' = "resolving" /\ pending' = Positions
       ELSE pc' = "failed" /\ pending' = pending
    /\ UNCHANGED <<data, prices, discounts, workflow>>

\* calculatePrices without the check of the context.
calculatePrices_AnyContext ==
    /\ pc = "idle"
    /\ pc' = "resolving" /\ pending' = Positions
    /\ UNCHANGED <<data, prices, discounts, workflow>>

\* calculatePrices({id: price_set_ids}, {context}): the context must hold currency_code.
calculatePrices ==
    /\ pc = "idle"
    /\ IF CURRENCY_CODE \in DOMAIN context
       THEN pc' = "resolving" /\ pending' = Positions
       ELSE pc' = "failed" /\ pending' = pending
    /\ UNCHANGED <<data, prices, discounts, workflow>>

\* resolvePriceSet that stores the price object at the next free position
\* of the array, in the order in which the price sets are resolved.
resolvePriceSet_CompletionOrder(i) ==
    /\ pc = "resolving"
    /\ i \in pending
    /\ \E original \in OriginalChoices(price_set_ids[i], context) :
          prices' = [prices EXCEPT ![Cardinality(Positions \ pending) + 1] =
                        assemble(price_set_ids[i], context, now, original)]
    /\ pending' = pending \ {i}
    /\ UNCHANGED <<data, pc, discounts, workflow>>

\* For one price set of the batch: select the two prices and build the price object.
resolvePriceSet(i) ==
    /\ pc = "resolving"
    /\ i \in pending
    /\ \E original \in OriginalChoices(price_set_ids[i], context) :
          prices' = [prices EXCEPT ![i] = assemble(price_set_ids[i], context, now, original)]
    /\ pending' = pending \ {i}
    /\ UNCHANGED <<data, pc, discounts, workflow>>

\* The array of price objects is returned, one for every supplied price set id.
returnPrices ==
    /\ pc = "resolving"
    /\ pending = {}
    /\ pc' = "done"
    /\ UNCHANGED <<data, pending, prices, discounts, workflow>>

Next ==
    \/ calculatePrices
    \/ \E i \in Positions : resolvePriceSet(i)
    \/ returnPrices

\* Before the call: nothing is resolved.
Idle ==
    /\ pc = "idle"
    /\ pending = {}
    /\ prices = [i \in Positions |-> PriceObject(price_set_ids[i], NoPrice, NoPrice)]

\* No discount, no discount condition and no call of DiscountConditionService.
NoDiscounts ==
    /\ discount = <<>>
    /\ discount_condition = <<>>
    /\ request = Null
    /\ outcome = Null

\* The createShippingMethods step is not run.
NoWorkflow ==
    /\ step_arguments = Null
    /\ service = Null
    /\ step_result = Null

(***************************************************************************)
(* Data: the rule types, values and currencies of the document's example   *)
(***************************************************************************)
RT_REGION == "rt_region"
RT_CITY == "rt_city"
RT_GROUP == "rt_group"

Currencies == {"EUR", "USD"}

\* A context: currency_code (or none), and a value or nothing for each of the keys.
ContextOf(currency, region, city, group) ==
    LET entries == {<<CURRENCY_CODE, currency>>, <<"region_id", region>>,
                    <<"city", city>>, <<"customer_group_id", group>>}
        present == {e \in entries : e[2] # Null}
    IN  [k \in {e[1] : e \in present} |-> (CHOOSE e \in present : e[1] = k)[2]]

\* The rows of a catalog at the positions of S, in the order of the catalog.
Pick(catalog, S) ==
    [i \in 1..Cardinality(S) |->
        catalog[CHOOSE x \in S : Cardinality({y \in S : y < x}) = i - 1]]

(***************************************************************************)
(* The example of the document                                             *)
(***************************************************************************)
ExampleRuleTypes ==
    (RT_REGION :> RuleType("region_id", 0)) @@ (RT_CITY :> RuleType("city", 0))

ExamplePriceSet ==
    << PriceSetMoneyAmount("ma_1", "ps_1", "EUR", 500, Null, NoRules),
       PriceSetMoneyAmount("ma_2", "ps_1", "EUR", 400, Null,
                           (RT_REGION :> PriceRule("PL", 0))),
       PriceSetMoneyAmount("ma_3", "ps_1", "EUR", 450, Null,
                           (RT_CITY :> PriceRule("krakow", 0))),
       PriceSetMoneyAmount("ma_4", "ps_1", "EUR", 500, Null,
                           (RT_CITY :> PriceRule("warsaw", 0)) @@
                           (RT_REGION :> PriceRule("PL", 0))) >>

\* The instants of the price list of the example: starts_at and ends_at.
ExampleStartsAt == 1
ExampleEndsAt == 2

ExamplePriceList ==
    ("pl_1" :> PriceList("active", "sale", ExampleStartsAt, ExampleEndsAt,
                         (RT_REGION :> {"PL"})))

ExamplePriceListPrices ==
    << PriceSetMoneyAmount("ma_pl_1", "ps_1", "EUR", 400, "pl_1", NoRules),
       PriceSetMoneyAmount("ma_pl_2", "ps_1", "EUR", 450, "pl_1", NoRules) >>

InitExample ==
    /\ rule_type = ExampleRuleTypes
    /\ \/ /\ price_list = <<>>
          /\ price_set_money_amount = ExamplePriceSet
       \/ /\ price_list = ExamplePriceList
          /\ price_set_money_amount = ExamplePriceSet \o ExamplePriceListPrices
    /\ price_set_ids = <<"ps_1">>
    /\ \E currency \in Currencies \cup {Null},
          region \in {Null, "PL", "US"},
          city \in {Null, "krakow", "warsaw"} :
            context = ContextOf(currency, region, city, Null)
    /\ now \in Instants
    /\ Idle
    /\ NoDiscounts /\ NoWorkflow

SpecExample == InitExample /\ [][Next]_vars

(***************************************************************************)
(* Price sets with price lists: two price lists, and the rows of a catalog *)
(***************************************************************************)
\* The rules of a price list: nothing, or the values of region_id and of city.
PriceListRules(regions, cities) ==
    [rt \in (IF regions = {} THEN {} ELSE {RT_REGION})
             \cup (IF cities = {} THEN {} ELSE {RT_CITY}) |->
        IF rt = RT_REGION THEN regions ELSE cities]

Catalog ==
    << PriceSetMoneyAmount("ma_default", "ps_1", "EUR", 500, Null, NoRules),
       PriceSetMoneyAmount("ma_region", "ps_1", "EUR", 450, Null,
                           (RT_REGION :> PriceRule("PL", 0))),
       PriceSetMoneyAmount("ma_pl_1", "ps_1", "EUR", 400, "pl_1", NoRules),
       PriceSetMoneyAmount("ma_pl_2", "ps_1", "EUR", 400, "pl_2", NoRules),
       PriceSetMoneyAmount("ma_pl_2_free", "ps_1", "EUR", 0, "pl_2", NoRules),
       PriceSetMoneyAmount("ma_pl_1_usd", "ps_1", "USD", 100, "pl_1", NoRules),
       PriceSetMoneyAmount("ma_city", "ps_1", "EUR", 350, Null,
                           (RT_CITY :> PriceRule("krakow", 0))) >>

\* starts_at and ends_at of a price list: no bound, ended at 0, or starting at MaxTime
Windows == {<<NullNum, NullNum>>, <<NullNum, 0>>, <<MaxTime, NullNum>>}

Init ==
    /\ rule_type = ExampleRuleTypes
    /\ \E status1 \in {"active", "draft"}, type1 \in {"sale", "override"},
          window \in Windows, regions \in {{}, {"PL"}},
          status2 \in {"active", "draft"}, type2 \in {"sale", "override"} :
            price_list =
                ("pl_1" :> PriceList(status1, type1, window[1], window[2],
                                     PriceListRules(regions, {}))) @@
                ("pl_2" :> PriceList(status2, type2, NullNum, NullNum, NoRules))
    /\ \E S \in SUBSET DOMAIN Catalog : price_set_money_amount = Pick(Catalog, S)
    /\ price_set_ids = <<"ps_1">>
    /\ \E region \in {Null, "PL", "US"}, city \in {Null, "krakow"} :
            context = ContextOf("EUR", region, city, Null)
    /\ now \in Instants
    /\ Idle
    /\ NoDiscounts /\ NoWorkflow

Spec == Init /\ [][Next]_vars

(***************************************************************************)
(* One price list, with every status, type, window and rules               *)
(***************************************************************************)
ValidityPrices ==
    << PriceSetMoneyAmount("ma_default", "ps_1", "EUR", 500, Null, NoRules),
       PriceSetMoneyAmount("ma_pl_1", "ps_1", "EUR", 400, "pl_1", NoRules) >>

InitValid ==
    /\ rule_type = ExampleRuleTypes
    /\ \E status \in {"active", "draft"}, type \in {"sale", "override"},
          starts_at \in Instants \cup {NullNum}, ends_at \in Instants \cup {NullNum},
          regions \in SUBSET {"PL", "US"}, cities \in SUBSET {"krakow"} :
            price_list = ("pl_1" :> PriceList(status, type, starts_at, ends_at,
                                              PriceListRules(regions, cities)))
    /\ price_set_money_amount = ValidityPrices
    /\ price_set_ids = <<"ps_1">>
    /\ \E region \in {Null, "PL", "US"}, city \in {Null, "krakow", "warsaw"} :
            context = ContextOf("EUR", region, city, Null)
    /\ now \in Instants
    /\ Idle
    /\ NoDiscounts /\ NoWorkflow

SpecValid == InitValid /\ [][Next]_vars

(***************************************************************************)
(* Standalone money amounts with rules of three rule types                 *)
(***************************************************************************)
\* The PriceRules of a money amount: a value or nothing for each rule type,
\* all of the given priority.
PriceRules(region, city, group, priority) ==
    LET entries == {<<RT_REGION, region>>, <<RT_CITY, city>>, <<RT_GROUP, group>>}
        present == {e \in entries : e[2] # Null}
    IN  [rt \in {e[1] : e \in present} |->
            PriceRule((CHOOSE e \in present : e[1] = rt)[2], priority)]

RuleSets ==
    {PriceRules(region, city, group, priority) :
        region \in {Null, "PL", "US"}, city \in {Null, "krakow", "warsaw"},
        group \in {Null, "vip"}, priority \in Priorities}

InitRank ==
    /\ \E region_priority \in Priorities, city_priority \in Priorities :
            rule_type = (RT_REGION :> RuleType("region_id", region_priority)) @@
                        (RT_CITY :> RuleType("city", city_priority)) @@
                        (RT_GROUP :> RuleType("customer_group_id", 0))
    /\ price_list = <<>>
    /\ \E rules_a \in RuleSets, rules_b \in RuleSets :
            price_set_money_amount =
                << PriceSetMoneyAmount("ma_a", "ps_1", "EUR", 400, Null, rules_a),
                   PriceSetMoneyAmount("ma_b", "ps_1", "EUR", 500, Null, rules_b) >>
    /\ price_set_ids = <<"ps_1">>
    /\ \E region \in {Null, "PL"}, city \in {Null, "krakow"}, group \in {Null, "vip"} :
            context = ContextOf("EUR", region, city, group)
    /\ now = 0
    /\ Idle
    /\ NoDiscounts /\ NoWorkflow

SpecRank == InitRank /\ [][Next]_vars

(***************************************************************************)
(* A batch of price sets                                                   *)
(***************************************************************************)
\* The longest list of price set ids of a call.
MaxBatch == 2

\* A rule type whose rule_attribute is the key of the currency.
RT_CURRENCY == "rt_currency"

BatchRuleTypes == ExampleRuleTypes @@ (RT_CURRENCY :> RuleType(CURRENCY_CODE, 0))

\* ps_1 and ps_2 have money amounts, ps_3 has none.
PriceSetIds == {"ps_1", "ps_2", "ps_3"}

BatchCatalog ==
    << PriceSetMoneyAmount("ma_1", "ps_1", "EUR", 500, Null, NoRules),
       PriceSetMoneyAmount("ma_1_usd", "ps_1", "USD", 600, Null, NoRules),
       PriceSetMoneyAmount("ma_2", "ps_2", "EUR", 700, Null, NoRules),
       PriceSetMoneyAmount("ma_1_region", "ps_1", "EUR", 400, Null,
                           (RT_REGION :> PriceRule("PL", 0))),
       PriceSetMoneyAmount("ma_1_pl", "ps_1", "EUR", 300, "pl_1", NoRules),
       PriceSetMoneyAmount("ma_2_second", "ps_2", "EUR", 800, Null, NoRules),
       PriceSetMoneyAmount("ma_2_currency", "ps_2", "EUR", 900, Null,
                           (RT_CURRENCY :> PriceRule("EUR", 0))) >>

\* The rows every state of the batch has, and the rows it may have.
BatchAlways == {1, 2, 3}
BatchOptional == {4, 5, 6, 7}

\* The lists of one to MaxBatch price set ids, an id possibly more than once.
Batches == UNION {[1..n -> PriceSetIds] : n \in 1..MaxBatch}

InitBatch ==
    /\ rule_type = BatchRuleTypes
    /\ \E type \in {"sale", "override"} :
            price_list = ("pl_1" :> PriceList("active", type, NullNum, NullNum, NoRules))
    /\ \E S \in SUBSET BatchOptional :
            price_set_money_amount = Pick(BatchCatalog, BatchAlways \cup S)
    /\ price_set_ids \in Batches
    /\ \E currency \in Currencies \cup {Null}, region \in {Null, "PL"},
          group \in {Null, "vip"} :
            context = ContextOf(currency, region, Null, group)
    /\ now = 0
    /\ Idle
    /\ NoDiscounts /\ NoWorkflow

SpecBatch == InitBatch /\ [][Next]_vars

(***************************************************************************)
(* The rule_type table under the constraints of the schema                 *)
(***************************************************************************)
RuleTypeIds == {"rt_1", "rt_2", "rt_3"}
RuleAttributes == {"region_id", "city"}

\* INSERT: rule_type_pkey is the unique index of the table; the index
\* IDX_rule_type_rule_attribute on rule_attribute is not unique.
insertRuleType(id, rule_attribute, default_priority) ==
    /\ id \notin DOMAIN rule_type
    /\ rule_type' = rule_type @@ (id :> RuleType(rule_attribute, default_priority))
    /\ UNCHANGED <<price_list, price_set_money_amount, price_set_ids, context, now,
                   pc, pending, prices, discounts, workflow>>

\* UPDATE of the rule_attribute of a row.
updateRuleType(id, rule_attribute) ==
    /\ id \in DOMAIN rule_type
    /\ rule_type' = [rule_type EXCEPT ![id].rule_attribute = rule_attribute]
    /\ UNCHANGED <<price_list, price_set_money_amount, price_set_ids, context, now,
                   pc, pending, prices, discounts, workflow>>

\* DELETE of a row.
deleteRuleType(id) ==
    /\ id \in DOMAIN rule_type
    /\ rule_type' = [rt \in DOMAIN rule_type \ {id} |-> rule_type[rt]]
    /\ UNCHANGED <<price_list, price_set_money_amount, price_set_ids, context, now,
                   pc, pending, prices, discounts, workflow>>

NextRuleType ==
    \/ \E id \in RuleTypeIds, rule_attribute \in RuleAttributes,
          default_priority \in Priorities :
            insertRuleType(id, rule_attribute, default_priority)
    \/ \E id \in RuleTypeIds, rule_attribute \in RuleAttributes :
            updateRuleType(id, rule_attribute)
    \/ \E id \in RuleTypeIds : deleteRuleType(id)

\* The empty table; the other tables are empty and no call is made.
InitRuleType ==
    /\ rule_type = <<>>
    /\ price_list = <<>>
    /\ price_set_money_amount = <<>>
    /\ price_set_ids = <<>>
    /\ context = ContextOf("EUR", Null, Null, Null)
    /\ now = 0
    /\ Idle
    /\ NoDiscounts /\ NoWorkflow

SpecRuleType == InitRuleType /\ [][NextRuleType]_vars

(***************************************************************************)
(* DiscountConditionService                                                *)
(***************************************************************************)
\* An optional list of ids of the input: absent, or the list of its items.
Absent == [defined |-> FALSE, items |-> <<>>]
List(items) == [defined |-> TRUE, items |-> items]

\* !!list?.length
HasLength(list) == list.defined /\ Len(list.items) > 0

\* if (x) for an optional string
Falsy(x) == x = Null \/ x = ""

PRODUCTS == "products"
PRODUCT_COLLECTIONS == "product_collections"
PRODUCT_TYPES == "product_types"
PRODUCT_TAGS == "product_tags"
CUSTOMER_GROUPS == "customer_groups"

\* The result undefined of resolveConditionType_.
Undefined == [type |-> Null, resource_ids |-> <<>>]

\* resolveConditionType_ that takes a list for present when it is empty.
resolveConditionType_EmptyCounts(input) ==
    IF input.products.defined
    THEN [type |-> PRODUCTS, resource_ids |-> input.products.items]
    ELSE IF input.product_collections.defined
    THEN [type |-> PRODUCT_COLLECTIONS, resource_ids |-> input.product_collections.items]
    ELSE IF input.product_types.defined
    THEN [type |-> PRODUCT_TYPES, resource_ids |-> input.product_types.items]
    ELSE IF input.product_tags.defined
    THEN [type |-> PRODUCT_TAGS, resource_ids |-> input.product_tags.items]
    ELSE IF input.customer_groups.defined
    THEN [type |-> CUSTOMER_GROUPS, resource_ids |-> input.customer_groups.items]
    ELSE Undefined

\* switch (true): the first case that holds, in the order of the cases.
resolveConditionType_(input) ==
    IF HasLength(input.products)
    THEN [type |-> PRODUCTS, resource_ids |-> input.products.items]
    ELSE IF HasLength(input.product_collections)
    THEN [type |-> PRODUCT_COLLECTIONS, resource_ids |-> input.product_collections.items]
    ELSE IF HasLength(input.product_types)
    THEN [type |-> PRODUCT_TYPES, resource_ids |-> input.product_types.items]
    ELSE IF HasLength(input.product_tags)
    THEN [type |-> PRODUCT_TAGS, resource_ids |-> input.product_tags.items]
    ELSE IF HasLength(input.customer_groups)
    THEN [type |-> CUSTOMER_GROUPS, resource_ids |-> input.customer_groups.items]
    ELSE Undefined

\* A row of discount, and a row of discount_condition with its resources as
\* (type, resource id) pairs.
Discount(id, rule_id) == [id |-> id, rule_id |-> rule_id]

DiscountCondition(id, discount_rule_id, type, operator, resources) ==
    [id |-> id, discount_rule_id |-> discount_rule_id, type |-> type,
     operator |-> operator, resources |-> resources]

\* discountIdOrDiscount: the id of a discount, or a discount.
ById(id) == [kind |-> "string", id |-> id, rule_id |-> Null]
ByDiscount(id, rule_id) == [kind |-> "object", id |-> id, rule_id |-> rule_id]

\* conditionRepo.findOneWithDiscount: the condition joined with the discount
\* of the given id; the discount is there when the condition is of its rule.
findOneWithDiscount(conditionId, discountId) ==
    [condition |-> conditionId \in DOMAIN discount_condition,
     discount |-> /\ conditionId \in DOMAIN discount_condition
                  /\ discountId \in DOMAIN discount
                  /\ discount[discountId].rule_id =
                        discount_condition[conditionId].discount_rule_id]

\* retrieve finds the condition: neither !condition nor !condition?.discount.
Retrieved(conditionId, discountId) ==
    /\ findOneWithDiscount(conditionId, discountId).condition
    /\ findOneWithDiscount(conditionId, discountId).discount

\* discountConditionRepo.addConditionResources: the resources of the type
\* are added to the condition, in place of the ones it has when overwriting.
addConditionResources(table, conditionId, resourceIds, type, overwriteExisting) ==
    [table EXCEPT ![conditionId].resources =
        (IF overwriteExisting THEN {r \in @ : r[1] # type} ELSE @)
            \cup {<<type, id>> : id \in Range(resourceIds)}]

\* The unique key of discount_condition: discount rule id, type and operator.
Duplicate(discount_rule_id, type, operator) ==
    \E c \in DOMAIN discount_condition :
        /\ discount_condition[c].discount_rule_id = discount_rule_id
        /\ discount_condition[c].type = type
        /\ discount_condition[c].operator = operator

\* The ids that the repository gives to new conditions.
ConditionIds == {"c_1", "c_2", "c_3"}

NewId == CHOOSE c \in ConditionIds : c \notin DOMAIN discount_condition

\* The end of a call of the service: the error thrown (or none), the
\* repository calls made in order, and for upsertCondition the resolved type.
Outcome(op, error, trace, resolved) ==
    [op |-> op, error |-> error, trace |-> trace, resolved |-> resolved]

NoCall == Outcome("none", Null, <<>>, Undefined)

\* throw inside atomicPhase_: the call ends with the error and the tables
\* are as before the call.
Throw(op, error, trace, resolved) ==
    /\ outcome' = Outcome(op, error, trace, resolved)
    /\ UNCHANGED discount_condition

\* The discount of the call: looked up when an id is passed, else the one
\* passed, which must have a rule_id.
LookupDiscount(arg) ==
    IF arg.kind = "string"
    THEN IF arg.id \in DOMAIN discount
         THEN [error |-> Null, discount |-> discount[arg.id],
               trace |-> <<"discount.findOne">>]
         ELSE [error |-> "NOT_FOUND", discount |-> Discount(Null, Null),
               trace |-> <<"discount.findOne">>]
    ELSE IF Falsy(arg.rule_id)
         THEN [error |-> "INVALID_DATA", discount |-> Discount(Null, Null), trace |-> <<>>]
         ELSE [error |-> Null, discount |-> Discount(arg.id, arg.rule_id), trace |-> <<>>]

\* UpdateCondition that creates the condition when retrieve does not find it.
UpdateCondition_CreateWhenMissing(input, found, resolved) ==
    IF Retrieved(input.id, found.discount.id)
    THEN /\ discount_condition' =
                addConditionResources(discount_condition, input.id,
                                      resolved.resource_ids, resolved.type, TRUE)
         /\ outcome' = Outcome("upsertCondition", Null,
                 found.trace \o <<"discountCondition.findOneWithDiscount",
                                  "discountCondition.addConditionResources">>, resolved)
    ELSE /\ input.id \notin DOMAIN discount_condition
         /\ discount_condition' =
                addConditionResources(
                    discount_condition @@
                        (input.id :> DiscountCondition(input.id, found.discount.rule_id,
                                                       resolved.type, input.operator, {})),
                    input.id, resolved.resource_ids, resolved.type, FALSE)
         /\ outcome' = Outcome("upsertCondition", Null,
                 found.trace \o <<"discountCondition.findOneWithDiscount",
                                  "discountCondition.save",
                                  "discountCondition.addConditionResources">>, resolved)

\* data.id is passed: the condition is retrieved for the discount and its
\* resources are overwritten.
UpdateCondition(input, found, resolved) ==
    IF Retrieved(input.id, found.discount.id)
    THEN /\ discount_condition' =
                addConditionResources(discount_condition, input.id,
                                      resolved.resource_ids, resolved.type, TRUE)
         /\ outcome' = Outcome("upsertCondition", Null,
                 found.trace \o <<"discountCondition.findOneWithDiscount",
                                  "discountCondition.addConditionResources">>, resolved)
    ELSE Throw("upsertCondition", "NOT_FOUND",
               found.trace \o <<"discountCondition.findOneWithDiscount">>, resolved)

\* data.id is not passed: a condition is created and saved, then given its
\* resources; the save fails on the unique key of the table.
CreateCondition(input, found, resolved) ==
    IF Duplicate(found.discount.rule_id, resolved.type, input.operator)
    THEN Throw("upsertCondition", "DUPLICATE_ERROR",
               found.trace \o <<"discountCondition.save">>, resolved)
    ELSE /\ ConditionIds \ DOMAIN discount_condition # {}
         /\ discount_condition' =
                addConditionResources(
                    discount_condition @@
                        (NewId :> DiscountCondition(NewId, found.discount.rule_id,
                                                    resolved.type, input.operator, {})),
                    NewId, resolved.resource_ids, resolved.type, FALSE)
         /\ outcome' = Outcome("upsertCondition", Null,
                 found.trace \o <<"discountCondition.save",
                                  "discountCondition.addConditionResources">>, resolved)

\* upsertCondition that gets the discount before it looks at the data.
upsertCondition_DiscountFirst ==
    LET input == request.data
        resolved == resolveConditionType_(input)
        found == LookupDiscount(request.discountIdOrDiscount)
    IN  /\ IF found.error # Null
           THEN Throw("upsertCondition", found.error, found.trace, resolved)
           ELSE IF resolved = Undefined
           THEN Throw("upsertCondition", "INVALID_DATA", found.trace, resolved)
           ELSE IF ~Falsy(input.id)
           THEN UpdateCondition(input, found, resolved)
           ELSE CreateCondition(input, found, resolved)
        /\ UNCHANGED <<discount, request, pricing, workflow>>

\* upsertCondition(discountIdOrDiscount, data)
upsertCondition ==
    LET input == request.data
        resolved == resolveConditionType_(input)
        found == LookupDiscount(request.discountIdOrDiscount)
    IN  /\ IF resolved = Undefined
           THEN Throw("upsertCondition", "INVALID_DATA", <<>>, resolved)
           ELSE IF found.error # Null
           THEN Throw("upsertCondition", found.error, found.trace, resolved)
           ELSE IF ~Falsy(input.id)
           THEN UpdateCondition(input, found, resolved)
           ELSE CreateCondition(input, found, resolved)
        /\ UNCHANGED <<discount, request, pricing, workflow>>

\* remove that removes every condition of the discount rule of the condition.
remove_WholeRule(discountConditionId) ==
    /\ IF discountConditionId \notin DOMAIN discount_condition
       THEN /\ outcome' = Outcome("remove", Null, <<"discountCondition.findOne">>, Undefined)
            /\ UNCHANGED discount_condition
       ELSE /\ outcome' = Outcome("remove", Null,
                    <<"discountCondition.findOne", "discountCondition.remove">>, Undefined)
            /\ discount_condition' =
                   [c \in {x \in DOMAIN discount_condition :
                              discount_condition[x].discount_rule_id #
                              discount_condition[discountConditionId].discount_rule_id}
                       |-> discount_condition[c]]
    /\ UNCHANGED <<discount, request, pricing, workflow>>

\* remove(discountConditionId)
remove(discountConditionId) ==
    /\ IF discountConditionId \notin DOMAIN discount_condition
       THEN /\ outcome' = Outcome("remove", Null, <<"discountCondition.findOne">>, Undefined)
            /\ UNCHANGED discount_condition
       ELSE /\ outcome' = Outcome("remove", Null,
                    <<"discountCondition.findOne", "discountCondition.remove">>, Undefined)
            /\ discount_condition' =
                   [c \in DOMAIN discount_condition \ {discountConditionId}
                       |-> discount_condition[c]]
    /\ UNCHANGED <<discount, request, pricing, workflow>>

NextDiscount ==
    \/ upsertCondition
    \/ \E discountConditionId \in ConditionIds : remove(discountConditionId)

\* The discounts d_1 and d_2, each with its rule.
Discounts ==
    ("d_1" :> Discount("d_1", "r_1")) @@ ("d_2" :> Discount("d_2", "r_2"))

\* The tables of conditions at the start: none, one of d_1, one of each.
ConditionTables ==
    LET c_1 == "c_1" :> DiscountCondition("c_1", "r_1", PRODUCTS, "in",
                                          {<<PRODUCTS, "a">>})
        c_2 == "c_2" :> DiscountCondition("c_2", "r_2", CUSTOMER_GROUPS, "not_in",
                                          {<<CUSTOMER_GROUPS, "a">>})
    IN  {<<>>, c_1, c_1 @@ c_2}

Operators == {"in", "not_in"}

\* A list of an input: absent, empty, or the given ids.
Lists(ids) == {Absent, List(<<>>), List(ids)}

UpsertInputs ==
    [id : {Null, ""} \cup ConditionIds, operator : Operators,
     products : Lists(<<"b", "c">>),
     product_collections : Lists(<<"col_1">>),
     product_types : Lists(<<"type_1">>),
     product_tags : Lists(<<"tag_1">>),
     customer_groups : Lists(<<"a", "b">>)]

\* The id of a discount there is, of one there is not, a discount, and a
\* discount without rule_id.
DiscountArguments ==
    {ById("d_1"), ById("d_2"), ById("d_9"),
     ByDiscount("d_1", "r_1"), ByDiscount("d_2", Null)}

NoPricing ==
    /\ rule_type = <<>>
    /\ price_list = <<>>
    /\ price_set_money_amount = <<>>
    /\ price_set_ids = <<>>
    /\ context = ContextOf("EUR", Null, Null, Null)
    /\ now = 0
    /\ Idle

InitDiscount ==
    /\ NoPricing /\ NoWorkflow
    /\ discount = Discounts
    /\ discount_condition \in ConditionTables
    /\ \E arg \in DiscountArguments, input \in UpsertInputs :
            request = [discountIdOrDiscount |-> arg, data |-> input]
    /\ outcome = NoCall

SpecDiscount == InitDiscount /\ [][NextDiscount]_vars

(***************************************************************************)
(* The createShippingMethods workflow step                                 *)
(***************************************************************************)
\* The highest price of a shipping method.
MaxPrice == 2

\* The entry of toCreate.
ToCreate(arguments) ==
    << [option |-> arguments.data.input.shippingOption,
        data |-> arguments.data.shippingOptionData,
        price |-> arguments.data.price,
        config |-> arguments.data.input.shippingMethodConfig] >>

\* What the createShippingMethods of the service returns: a shipping method
\* for each entry.
Created(toCreate) ==
    [i \in DOMAIN toCreate |->
        [shipping_option |-> toCreate[i].option, data |-> toCreate[i].data,
         price |-> toCreate[i].price, config |-> toCreate[i].config]]

\* A call of a method of the service.
ServiceCall(method, manager, argument) ==
    [method |-> method, manager |-> manager, argument |-> argument]

\* createShippingMethods({container, context, data}): the method
\* withTransction of the resolved service is called, which is a TypeError
\* when the service has no method of this name.
createShippingMethods ==
    /\ step_result.status = "idle"
    /\ LET manager == step_arguments.context.transactionManager
           toCreate == ToCreate(step_arguments)
       IN  IF "withTransction" \in service.methods
           THEN /\ service' =
                      [service EXCEPT !.calls =
                          @ \o << ServiceCall("withTransction", Null, <<manager>>),
                                  ServiceCall("createShippingMethods", manager, toCreate) >>]
                /\ step_result' =
                      [status |-> "done", error |-> Null,
                       createdShippingMethods |-> Created(toCreate)]
           ELSE /\ service' = service
                /\ step_result' =
                      [status |-> "failed", error |-> "TypeError",
                       createdShippingMethods |-> <<>>]
    /\ UNCHANGED <<step_arguments, pricing, discounts>>

NextWorkflow == createShippingMethods

ShippingOptions == {"so_1", "so_2", "so_3"}
ShippingOptionData == {"none", "pickup", "express"}
ShippingMethodConfigs == {"cart_1", "return_1"}
Managers == {"tx_1", "tx_2"}

\* The methods of the shipping method service: the ones of a service of the
\* repository, with or without one named as the call of the step.
ServiceMethods ==
    {{"withTransaction", "createShippingMethods"},
     {"withTransaction", "withTransction", "createShippingMethods"}}

InitWorkflow ==
    /\ NoPricing /\ NoDiscounts
    /\ \E shippingOption \in ShippingOptions, shippingMethodConfig \in ShippingMethodConfigs,
          price \in 0..MaxPrice, shippingOptionData \in ShippingOptionData,
          manager \in Managers :
            step_arguments =
                [context |-> [transactionManager |-> manager],
                 data |-> [input |-> [shippingOption |-> shippingOption,
                                      shippingMethodConfig |-> shippingMethodConfig],
                           price |-> price,
                           shippingOptionData |-> shippingOptionData]]
    /\ \E methods \in ServiceMethods : service = [methods |-> methods, calls |-> <<>>]
    /\ step_result = [status |-> "idle", error |-> Null, createdShippingMethods |-> <<>>]

SpecWorkflow == InitWorkflow /\ [][NextWorkflow]_vars

(***************************************************************************)
(* Properties                                                              *)
(***************************************************************************)
\* The price object of position i has been built.
Resolved(i) == pc \in {"resolving", "done"} /\ i \in Positions \ pending

\* The rows of the price set of position i in the currency of the context.
RowsOf(i) ==
    {m \in Range(price_set_money_amount) :
        m.price_set_id = price_set_ids[i] /\ m.currency_code = context[CURRENCY_CODE]}

StandaloneOf(i) == {m \in RowsOf(i) : m.price_list_id = Null}

\* The entries of the context other than currency_code, as (key, value) pairs.
ContextEntries == {<<k, context[k]>> : k \in DOMAIN context \ {CURRENCY_CODE}}

\* The PriceRules of a money amount, as (rule_attribute, value) pairs.
RuleEntries(m) ==
    {<<rule_type[rt].rule_attribute, m.price_rules[rt].value>> : rt \in DOMAIN m.price_rules}

\* The number of PriceRules of the money amount that the context satisfies.
SatisfiedRules(m) == Cardinality(RuleEntries(m) \cap ContextEntries)

Draft(pl) == pl.status = "draft"
NotStarted(pl) == pl.starts_at # NullNum /\ now < pl.starts_at
Expired(pl) == pl.ends_at # NullNum /\ now > pl.ends_at
RuleMismatch(pl) ==
    \E rt \in DOMAIN pl.rules :
        \/ rule_type[rt].rule_attribute \notin DOMAIN context
        \/ context[rule_type[rt].rule_attribute] \notin pl.rules[rt]

Usable(pl) == ~Draft(pl) /\ ~NotStarted(pl) /\ ~Expired(pl) /\ ~RuleMismatch(pl)

\* The rows of position i that belong to a usable price list.
ValidListRows(i) ==
    {m \in RowsOf(i) : m.price_list_id # Null /\ Usable(price_list[m.price_list_id])}

InvalidListRows(i) ==
    {m \in RowsOf(i) : m.price_list_id # Null /\ ~Usable(price_list[m.price_list_id])}

CalculatedId(i) == prices[i].calculated_price.money_amount_id
OriginalId(i) == prices[i].original_price.money_amount_id

\* The data and the call of the example of the document, without and with its price list.
ExampleCall ==
    /\ rule_type = ExampleRuleTypes
    /\ price_set_ids = <<"ps_1">>
    /\ context = ContextOf("EUR", "PL", "krakow", Null)
    /\ pc = "done"

\* C8: for the example price set without price lists, the context
\* {currency_code: EUR, region_id: PL, city: krakow} yields calculated =
\* original = the two-rule 500 EUR amount, not the 400 or the 450 amount.
C8_TwoRuleAmountSelected ==
    (ExampleCall /\ price_list = <<>> /\ price_set_money_amount = ExamplePriceSet) =>
        /\ CalculatedId(1) = "ma_4" /\ OriginalId(1) = "ma_4"
        /\ prices[1].calculated_amount = 500 /\ prices[1].original_amount = 500
        /\ ~prices[1].is_calculated_price_price_list
        /\ ~prices[1].is_original_price_price_list

C8_Witness ==
    /\ ExampleCall /\ price_list = <<>> /\ price_set_money_amount = ExamplePriceSet
    /\ CalculatedId(1) = "ma_4"

C1_LowestValidListAmount ==
    \A i \in Positions : Resolved(i) =>
        /\ ValidListRows(i) # {} =>
              \E m \in ValidListRows(i) :
                  /\ CalculatedId(i) = m.id
                  /\ \A n \in ValidListRows(i) : m.amount <= n.amount
        /\ \A m \in InvalidListRows(i) : CalculatedId(i) # m.id

\* A valid list is chosen although an invalid list holds a lower amount.
C1_Witness ==
    /\ Resolved(1)
    /\ \E m \in ValidListRows(1), n \in InvalidListRows(1) :
          CalculatedId(1) = m.id /\ n.amount < m.amount

\* C2: if the calculated price belongs to a price list of type override, the
\* returned original price is the same money amount as the calculated price,
\* also when the original selection alone returns a standalone amount.
C2_OverrideReplacesOriginal ==
    \A i \in Positions : Resolved(i) =>
        (prices[i].calculated_price.price_list_type = "override" =>
            /\ prices[i].original_price = prices[i].calculated_price
            /\ prices[i].original_amount = prices[i].calculated_amount
            /\ prices[i].is_original_price_price_list)

\* An override amount replaces a standalone amount found by ranked partial matching.
C2_Witness ==
    /\ Resolved(1)
    /\ prices[1].calculated_price.price_list_type = "override"
    /\ OriginalId(1) = CalculatedId(1)
    /\ ContextEntries # {}
    /\ \A m \in StandaloneOf(1) : RuleEntries(m) # ContextEntries
    /\ \E m \in StandaloneOf(1) : SatisfiedRules(m) > 0

\* C3: when no money amount of a valid price list exists in the context
\* currency, the returned calculated price equals the returned original
\* price, both are absent exactly when the original selection returns
\* nothing, and is_calculated_price_price_list is false.
C3_FallbackToOriginal ==
    \A i \in Positions : Resolved(i) =>
        (ValidListRows(i) = {} =>
            /\ prices[i].calculated_price = prices[i].original_price
            /\ prices[i].calculated_amount = prices[i].original_amount
            /\ ~prices[i].is_calculated_price_price_list
            /\ (CalculatedId(i) = Null <=> selectOriginal(price_set_ids[i], context) = {})
            /\ (CalculatedId(i) # Null =>
                    \E m \in selectOriginal(price_set_ids[i], context) : m.id = CalculatedId(i)))

\* Only invalid price lists hold amounts, and the original price is returned for both.
C3_Witness ==
    /\ Resolved(1)
    /\ ValidListRows(1) = {} /\ InvalidListRows(1) # {}
    /\ CalculatedId(1) # Null /\ CalculatedId(1) = OriginalId(1)

\* C4: for a price set whose only money amount in the context currency is a
\* standalone amount without rules and a context holding only currency_code,
\* calculated = original = that amount.
C4_DefaultOnly ==
    \A i \in Positions : Resolved(i) =>
        \A d \in RowsOf(i) :
            (/\ RowsOf(i) = {d}
             /\ d.price_list_id = Null /\ DOMAIN d.price_rules = {}
             /\ DOMAIN context = {CURRENCY_CODE}) =>
                /\ CalculatedId(i) = d.id /\ OriginalId(i) = d.id
                /\ prices[i].calculated_price = prices[i].original_price
                /\ prices[i].calculated_amount = prices[i].original_amount

\* The default amount is the only one in EUR, beside an amount in another currency.
C4_Witness ==
    /\ Resolved(1)
    /\ DOMAIN context = {CURRENCY_CODE}
    /\ \E d \in RowsOf(1) : RowsOf(1) = {d} /\ d.price_list_id = Null /\ d.number_rules = 0
                              /\ CalculatedId(1) = d.id
    /\ Len(price_set_money_amount) > 1

\* The price list has a money amount of the price set of position i in the context currency.
HasRow(L, i) == \E m \in RowsOf(i) : m.price_list_id = L

\* C10: isValid is false when the status of the list is not active, when
\* starts_at is set and now < starts_at, and when ends_at is set and
\* now > ends_at; now equal to starts_at or to ends_at is not rejected and an
\* unset starts_at or ends_at imposes no bound.  The price object shows it:
\* the amount of the one price list is the calculated price exactly when the
\* list is valid.
C10_ValidityOfPriceList ==
    \A L \in DOMAIN price_list :
        LET pl == price_list[L]
            valid == isValid(pl, context, now)
        IN  /\ pl.status # "active" => ~valid
            /\ (pl.starts_at # NullNum /\ now < pl.starts_at) => ~valid
            /\ (pl.ends_at # NullNum /\ now > pl.ends_at) => ~valid
            /\ (/\ pl.status = "active"
                /\ ~RuleMismatch(pl)
                /\ (pl.starts_at = NullNum \/ now >= pl.starts_at)
                /\ (pl.ends_at = NullNum \/ now <= pl.ends_at)) => valid
            /\ \A i \in Positions :
                  (Resolved(i) /\ HasRow(L, i) /\ DOMAIN price_list = {L}) =>
                      (prices[i].calculated_price.price_list_id = L <=> valid)

\* An active list whose dates are both the evaluation instant gives the calculated price.
C10_Witness ==
    /\ Resolved(1)
    /\ \E L \in DOMAIN price_list :
          /\ price_list[L].starts_at = now /\ price_list[L].ends_at = now
          /\ prices[1].calculated_price.price_list_id = L

\* The standalone money amounts whose rules are exactly the entries of the context.
ExactRows(i) == {m \in StandaloneOf(i) : RuleEntries(m) = ContextEntries}

\* The standalone money amounts with a rule that the context satisfies.
Survivors(i) == {m \in StandaloneOf(i) : SatisfiedRules(m) > 0}

\* Every PriceRule of a has a higher priority than every PriceRule of b.
HigherPriority(a, b) ==
    \A ra \in DOMAIN a.price_rules, rb \in DOMAIN b.price_rules :
        a.price_rules[ra].priority > b.price_rules[rb].priority

SamePriority(a, b) ==
    \A ra \in DOMAIN a.price_rules, rb \in DOMAIN b.price_rules :
        a.price_rules[ra].priority = b.price_rules[rb].priority

\* Every rule type of a has a higher default_priority than every rule type of b.
HigherDefaultPriority(a, b) ==
    \A ra \in DOMAIN a.price_rules, rb \in DOMAIN b.price_rules :
        rule_type[ra].default_priority > rule_type[rb].default_priority

\* C5: for a context with at least one rule entry, when a standalone money
\* amount has PriceRules that are exactly the entries of the context, the
\* original price is that amount (an amount with exactly these rules),
\* whatever the rules and priorities of the partially matching amounts.
C5_ExactMatchSelected ==
    \A i \in Positions : Resolved(i) =>
        ((ContextEntries # {} /\ ExactRows(i) # {}) =>
            /\ \E m \in ExactRows(i) : OriginalId(i) = m.id
            /\ price_list = <<>> => CalculatedId(i) = OriginalId(i))

\* The exact match wins over a partial match with more rules and a higher priority.
C5_Witness ==
    /\ Resolved(1)
    /\ \E a \in ExactRows(1), b \in Survivors(1) \ ExactRows(1) :
          /\ OriginalId(1) = a.id
          /\ b.number_rules > a.number_rules
          /\ HigherPriority(b, a)
          /\ \E rb \in DOMAIN b.price_rules : \A ra \in DOMAIN a.price_rules :
                rule_type[rb].default_priority > rule_type[ra].default_priority

\* C6 as stated: in ranked partial matching, a candidate with fewer rules
\* satisfied by the context than another candidate is never selected.
C6_MoreSatisfiedRulesWin ==
    \A i \in Positions : Resolved(i) =>
        ((ContextEntries # {} /\ ExactRows(i) = {}) =>
            \A a \in Survivors(i), b \in Survivors(i) :
                SatisfiedRules(a) > SatisfiedRules(b) => OriginalId(i) # b.id)

\* C6 as amended: in ranked partial matching, a surviving candidate with a
\* lower number_rules (fewer PriceRules) than another surviving candidate is
\* never selected, whatever the priorities and default priorities.
C6_MoreRulesWin ==
    \A i \in Positions : Resolved(i) =>
        ((ContextEntries # {} /\ ExactRows(i) = {}) =>
            \A a \in Survivors(i), b \in Survivors(i) :
                a.number_rules > b.number_rules => OriginalId(i) # b.id)

\* The amount with more rules wins against a higher priority and default priority.
C6_Witness ==
    /\ Resolved(1)
    /\ ContextEntries # {} /\ ExactRows(1) = {}
    /\ \E a \in Survivors(1), b \in Survivors(1) :
          /\ a.number_rules > b.number_rules
          /\ HigherPriority(b, a) /\ HigherDefaultPriority(b, a)
          /\ OriginalId(1) = a.id

\* C7 as stated: of two candidates with equal numbers of satisfied rules, the
\* one with the lower priority is not selected, and with equal priorities the
\* one with the lower default_priority is not selected.
C7_PriorityAmongEqualSatisfied ==
    \A i \in Positions : Resolved(i) =>
        ((ContextEntries # {} /\ ExactRows(i) = {}) =>
            \A a \in Survivors(i), b \in Survivors(i) :
                SatisfiedRules(a) = SatisfiedRules(b) =>
                    /\ HigherPriority(a, b) => OriginalId(i) # b.id
                    /\ (SamePriority(a, b) /\ HigherDefaultPriority(a, b)) =>
                           OriginalId(i) # b.id)

\* C7 as amended: of two candidates with equal number_rules, the one with
\* the lower priority is not selected, even when its rule types have the
\* higher default_priority; with equal number_rules and equal priorities,
\* the one with the lower default_priority is not selected.
C7_PriorityAmongEqualRules ==
    \A i \in Positions : Resolved(i) =>
        ((ContextEntries # {} /\ ExactRows(i) = {}) =>
            \A a \in Survivors(i), b \in Survivors(i) :
                a.number_rules = b.number_rules =>
                    /\ HigherPriority(a, b) => OriginalId(i) # b.id
                    /\ (SamePriority(a, b) /\ HigherDefaultPriority(a, b)) =>
                           OriginalId(i) # b.id)

\* The higher priority wins against the higher default_priority.
C7_Witness ==
    /\ Resolved(1)
    /\ ContextEntries # {} /\ ExactRows(1) = {}
    /\ \E a \in Survivors(1), b \in Survivors(1) :
          /\ a.number_rules = b.number_rules
          /\ HigherPriority(a, b) /\ HigherDefaultPriority(b, a)
          /\ OriginalId(1) = a.id

\* A PriceListRule is satisfied: the context has the attribute of its rule
\* type and the value there is one of the PriceListRuleValues.
RuleSatisfiedBy(pl, rt) ==
    /\ rule_type[rt].rule_attribute \in DOMAIN context
    /\ \E v \in pl.rules[rt] : context[rule_type[rt].rule_attribute] = v

ActiveInWindow(pl) == ~Draft(pl) /\ ~NotStarted(pl) /\ ~Expired(pl)

\* C11: an active price list inside its window is valid exactly when every
\* one of its PriceListRules is satisfied, a rule being satisfied when the
\* context holds the rule's attribute with one of the rule's values; a list
\* without rules is valid for every context and a list with a rule whose
\* attribute the context lacks is not valid.
C11_EveryRuleSatisfied ==
    \A L \in DOMAIN price_list :
        LET pl == price_list[L]
            valid == isValid(pl, context, now)
        IN  ActiveInWindow(pl) =>
              /\ valid <=> \A rt \in DOMAIN pl.rules : RuleSatisfiedBy(pl, rt)
              /\ DOMAIN pl.rules = {} => valid
              /\ (\E rt \in DOMAIN pl.rules :
                      rule_type[rt].rule_attribute \notin DOMAIN context) => ~valid
              /\ \A i \in Positions :
                    (Resolved(i) /\ HasRow(L, i) /\ DOMAIN price_list = {L}) =>
                        (prices[i].calculated_price.price_list_id = L <=>
                            \A rt \in DOMAIN pl.rules : RuleSatisfiedBy(pl, rt))

\* A list with a two-valued region rule and a city rule gives the calculated
\* price for a context with the second region value and the city.
C11_Witness ==
    /\ Resolved(1)
    /\ \E L \in DOMAIN price_list :
          /\ ActiveInWindow(price_list[L])
          /\ DOMAIN price_list[L].rules = {RT_REGION, RT_CITY}
          /\ price_list[L].rules[RT_REGION] = {"PL", "US"}
          /\ "region_id" \in DOMAIN context /\ context["region_id"] = "US"
          /\ prices[1].calculated_price.price_list_id = L

\* The rule types of a set of rules that the context satisfies with one of
\* the given values.
SatisfiedTypes(rts, valuesOf(_)) ==
    {rt \in rts :
        /\ rule_type[rt].rule_attribute \in DOMAIN context \ {CURRENCY_CODE}
        /\ context[rule_type[rt].rule_attribute] \in valuesOf(rt)}

\* The result of the matcher is the count of the satisfied rules.
CountsSatisfied(result, rts, valuesOf(_)) ==
    LET satisfied == Cardinality(SatisfiedTypes(rts, valuesOf))
    IN  /\ result.matchedCount = satisfied
        /\ 0 <= result.matchedCount /\ result.matchedCount <= Cardinality(rts)
        /\ result.fullMatch <=> result.matchedCount = Cardinality(rts)
        /\ rts = {} => result.fullMatch /\ result.matchedCount = 0

\* C12: matches(constraints, context) gives as matchedCount the number of
\* the constraints that the context satisfies, between 0 and the number of
\* constraints, and gives fullMatch exactly when matchedCount is the number
\* of constraints (so for no constraints); the count is the same when
\* fullMatch is false.
C12_MatchedCountIsSatisfiedCount ==
    /\ \A m \in Range(price_set_money_amount) :
          LET valuesOf(rt) == {m.price_rules[rt].value}
          IN  /\ CountsSatisfied(matches(PriceRuleConstraints(m), context),
                                 DOMAIN m.price_rules, valuesOf)
              /\ MatchedCount(m, context) =
                     Cardinality(SatisfiedTypes(DOMAIN m.price_rules, valuesOf))
    /\ \A L \in DOMAIN price_list :
          LET valuesOf(rt) == price_list[L].rules[rt]
          IN  CountsSatisfied(matches(PriceListConstraints(price_list[L]), context),
                              DOMAIN price_list[L].rules, valuesOf)

\* A money amount with three rules of which the context satisfies one is
\* selected as the original price: one counted, no full match.
C12_Witness ==
    /\ Resolved(1)
    /\ \E m \in Range(price_set_money_amount) :
          /\ m.number_rules = 3
          /\ MatchedCount(m, context) = 1
          /\ ~matches(PriceRuleConstraints(m), context).fullMatch
          /\ OriginalId(1) = m.id

\* The price objects that resolving the price set alone may give.
ResultsOf(priceSetId) ==
    {assemble(priceSetId, context, now, original) :
        original \in OriginalChoices(priceSetId, context)}

\* The ids of the money amounts of a price set, and none.
AmountIdsOf(priceSetId) ==
    {m.id : m \in {r \in Range(price_set_money_amount) : r.price_set_id = priceSetId}}
        \cup {Null}

\* The price object of position i is one of its own price set.
OwnResult(i) ==
    /\ prices[i] \in ResultsOf(price_set_ids[i])
    /\ CalculatedId(i) \in AmountIdsOf(price_set_ids[i])
    /\ OriginalId(i) \in AmountIdsOf(price_set_ids[i])

\* C13: a call with the ids p1..pn returns n price objects, the i-th with the
\* id pi, in whatever order the price sets are resolved; the price object of
\* an id is the one of its price set and the context, whatever the other
\* ids of the call, so the same for the same id at two positions.
C13_OneResultPerId ==
    /\ DOMAIN prices = Positions
    /\ pc = "done" => pending = {}
    /\ \A i \in Positions :
          /\ prices[i].id = price_set_ids[i]
          /\ Resolved(i) => OwnResult(i)
          /\ \A j \in Positions :
                (/\ Resolved(i) /\ Resolved(j)
                 /\ price_set_ids[i] = price_set_ids[j]
                 /\ Cardinality(ResultsOf(price_set_ids[i])) = 1) =>
                    prices[i] = prices[j]

\* The call for ps_2 and ps_1, in this order, has returned the default
\* money amount of ps_2 first and the one of ps_1 second.
C13_Witness ==
    /\ pc = "done"
    /\ price_set_ids = <<"ps_2", "ps_1">>
    /\ OriginalId(1) = "ma_2"
    /\ OriginalId(2) = "ma_1"

\* The price set of position i has no money amount at all.
NoData(i) ==
    \A m \in Range(price_set_money_amount) : m.price_set_id # price_set_ids[i]

\* Every calculated and original field of the price object is absent.
AllAbsent(price) ==
    /\ price.calculated_amount = NullNum /\ price.original_amount = NullNum
    /\ price.currency_code = Null
    /\ ~price.is_calculated_price_price_list /\ ~price.is_original_price_price_list
    /\ price.calculated_price.money_amount_id = Null
    /\ price.calculated_price.price_list_id = Null
    /\ price.calculated_price.price_list_type = Null
    /\ price.original_price.money_amount_id = Null
    /\ price.original_price.price_list_id = Null
    /\ price.original_price.price_list_type = Null

\* C14: an id of the call for which there is no data gets, at its position,
\* a price object with its id and every calculated and original field
\* absent; the call does not fail for it, and the price objects of the other
\* ids are the ones their price sets give alone.
C14_PriceSetWithoutData ==
    /\ CURRENCY_CODE \in DOMAIN context => pc # "failed"
    /\ \A i \in Positions : Resolved(i) =>
          IF NoData(i)
          THEN prices[i].id = price_set_ids[i] /\ AllAbsent(prices[i])
          ELSE OwnResult(i)

\* The call for ps_3, without data, and ps_1 has returned nothing for the
\* first and the default money amount of ps_1 for the second.
C14_Witness ==
    /\ pc = "done"
    /\ price_set_ids = <<"ps_3", "ps_1">>
    /\ NoData(1) /\ AllAbsent(prices[1])
    /\ OriginalId(2) = "ma_1" /\ prices[2].original_amount = 500

\* C15: a call whose context has no currency_code fails as a whole, the only
\* failure of a call being this one: no price set of the call is resolved and
\* no price object is returned for any id.
C15_NoCurrencyNoPrices ==
    /\ pc = "failed" => CURRENCY_CODE \notin DOMAIN context
    /\ CURRENCY_CODE \notin DOMAIN context =>
          /\ pc \in {"idle", "failed"}
          /\ pending = {}
          /\ \A i \in Positions : ~Resolved(i) /\ AllAbsent(prices[i])

\* The call for two price sets with data has failed for a context that has
\* a region and no currency_code.
C15_Witness ==
    /\ pc = "failed"
    /\ price_set_ids = <<"ps_1", "ps_2">>
    /\ DOMAIN context = {"region_id"}
    /\ \A i \in Positions : ~NoData(i) /\ AllAbsent(prices[i])

\* The standalone money amounts without rules of position i.
DefaultsOf(i) == {m \in StandaloneOf(i) : DOMAIN m.price_rules = {}}

\* The calculated price of position i does not override the original price.
NotOverridden(i) == prices[i].calculated_price.price_list_type # "override"

\* C16: for a context with currency_code only, a price set with more than
\* one standalone money amount without rules in the currency does not make
\* the call fail: its original price is absent, the ambiguous default being
\* no match, and the other price sets of the call get their default money
\* amount as usual.
C16_AmbiguousDefaultIsNoMatch ==
    DOMAIN context = {CURRENCY_CODE} =>
        /\ pc # "failed"
        /\ \A i \in Positions : (Resolved(i) /\ NotOverridden(i)) =>
              /\ Cardinality(DefaultsOf(i)) > 1 =>
                    /\ OriginalId(i) = Null
                    /\ prices[i].original_amount = NullNum
              /\ \A d \in DefaultsOf(i) : DefaultsOf(i) = {d} =>
                    /\ OriginalId(i) = d.id
                    /\ prices[i].original_amount = d.amount

\* The call for ps_2, with two default money amounts, and ps_1 has returned
\* no original price for the first and the default of ps_1 for the second.
C16_Witness ==
    /\ pc = "done"
    /\ DOMAIN context = {CURRENCY_CODE}
    /\ price_set_ids = <<"ps_2", "ps_1">>
    /\ Cardinality(DefaultsOf(1)) = 2
    /\ OriginalId(1) = Null
    /\ OriginalId(2) = "ma_1"

\* The keys of the context, currency_code apart, that a rule type has as
\* rule_attribute.
RuleKeys ==
    {k \in DOMAIN context \ {CURRENCY_CODE} :
        \E rt \in DOMAIN rule_type : rule_type[rt].rule_attribute = k}

\* The rules of the money amount, the ones on currency_code apart, that the
\* context satisfies.
SatisfiedNonCurrency(m) ==
    {rt \in DOMAIN m.price_rules :
        /\ rule_type[rt].rule_attribute # CURRENCY_CODE
        /\ rule_type[rt].rule_attribute \in DOMAIN context
        /\ context[rule_type[rt].rule_attribute] = m.price_rules[rt].value}

\* C17: the money amounts selected as calculated and original price are in
\* the currency of the context, and currency_code is never a rule, even for
\* a rule type with this rule_attribute: it is not counted among the matched
\* rules, a context with currency_code only is the default context, and a
\* money amount is never selected for its rule on currency_code.
C17_CurrencyIsNotARule ==
    CURRENCY_CODE \in DOMAIN context =>
        /\ \A m \in Range(price_set_money_amount) :
              MatchedCount(m, context) = Cardinality(SatisfiedNonCurrency(m))
        /\ \A i \in Positions : Resolved(i) =>
              /\ prices[i].currency_code \in {Null, context[CURRENCY_CODE]}
              /\ \A m \in Range(price_set_money_amount) :
                    m.id \in {CalculatedId(i), OriginalId(i)} =>
                        m.currency_code = context[CURRENCY_CODE]
              /\ NotOverridden(i) =>
                    /\ RuleKeys = {} =>
                          \A d \in DefaultsOf(i) : DefaultsOf(i) = {d} => OriginalId(i) = d.id
                    /\ RuleKeys # {} =>
                          \A m \in StandaloneOf(i) :
                              m.id = OriginalId(i) => SatisfiedNonCurrency(m) # {}

\* For a context with currency_code EUR only, ps_2 gets its default money
\* amount and not the one with the rule currency_code = EUR, and ps_1 gets
\* its default in EUR and not the one in USD.
C17_Witness ==
    /\ pc = "done"
    /\ DOMAIN context = {CURRENCY_CODE} /\ context[CURRENCY_CODE] = "EUR"
    /\ price_set_ids = <<"ps_2", "ps_1">>
    /\ \E m \in StandaloneOf(1) : m.id = "ma_2_currency"
    /\ OriginalId(1) = "ma_2"
    /\ OriginalId(2) = "ma_1" /\ prices[2].currency_code = "EUR"

\* The context without the keys that no rule type has as rule_attribute.
KnownContext ==
    [k \in RuleKeys \cup (DOMAIN context \cap {CURRENCY_CODE}) |-> context[k]]

\* C18: a key of the context that is not the rule_attribute of any rule type
\* has no effect: the price object is the one that the context without such
\* keys gives, and a context of currency_code and such keys only selects the
\* default money amount.
C18_UnknownKeyHasNoEffect ==
    \A i \in Positions : Resolved(i) =>
        /\ prices[i] \in
              {assemble(price_set_ids[i], KnownContext, now, original) :
                  original \in OriginalChoices(price_set_ids[i], KnownContext)}
        /\ (DOMAIN KnownContext = {CURRENCY_CODE} /\ NotOverridden(i)) =>
              \A d \in DefaultsOf(i) : DefaultsOf(i) = {d} => OriginalId(i) = d.id

\* For a context with currency_code and customer_group_id, of which there
\* is no rule type, ps_1 gets its default money amount.
C18_Witness ==
    /\ pc = "done"
    /\ DOMAIN context = {CURRENCY_CODE, "customer_group_id"}
    /\ \A rt \in DOMAIN rule_type : rule_type[rt].rule_attribute # "customer_group_id"
    /\ price_set_ids = <<"ps_1">>
    /\ \E m \in StandaloneOf(1) : m.id = "ma_1_region"
    /\ OriginalId(1) = "ma_1"

\* The amount of the money amount with the given id.
AmountOf(id) == (CHOOSE m \in Range(price_set_money_amount) : m.id = id).amount

\* C19: calculated_amount is null exactly when there is no calculated
\* price, and is otherwise the amount of the calculated price, whatever the
\* amount, 0 included; the same for original_amount and the original price.
C19_AmountNullIffNoPrice ==
    \A i \in Positions : Resolved(i) =>
        /\ prices[i].calculated_amount = NullNum <=> CalculatedId(i) = Null
        /\ CalculatedId(i) # Null =>
              prices[i].calculated_amount = AmountOf(CalculatedId(i))
        /\ prices[i].original_amount = NullNum <=> OriginalId(i) = Null
        /\ OriginalId(i) # Null =>
              prices[i].original_amount = AmountOf(OriginalId(i))

\* C20: in every state of the rule_type table that the constraints of the
\* schema allow, no two rule types have the same rule_attribute.
C20_RuleAttributeUnique ==
    \A a \in DOMAIN rule_type, b \in DOMAIN rule_type :
        a # b => rule_type[a].rule_attribute # rule_type[b].rule_attribute

\* The calculated price of position i is the first row, in insertion order,
\* with the lowest amount among the given rows.
CalculatedIsFirstLowest(i, rows) ==
    \E k \in DOMAIN price_set_money_amount :
        /\ price_set_money_amount[k] \in rows
        /\ CalculatedId(i) = price_set_money_amount[k].id
        /\ \A j \in DOMAIN price_set_money_amount :
              price_set_money_amount[j] \in rows =>
                  \/ price_set_money_amount[k].amount < price_set_money_amount[j].amount
                  \/ /\ price_set_money_amount[k].amount = price_set_money_amount[j].amount
                     /\ k <= j

\* C21 as stated: the candidates of the calculated price are the rows of the
\* price set in the currency that belong to no price list or to a valid one;
\* when there are any, the calculated price is the first of them in
\* insertion order with the lowest amount.
C21_LowestOfListAndStandalone ==
    \A i \in Positions : Resolved(i) =>
        (StandaloneOf(i) \cup ValidListRows(i) # {} =>
            CalculatedIsFirstLowest(i, StandaloneOf(i) \cup ValidListRows(i)))

\* C21 as amended: the candidates of the calculated price are the rows of
\* the price set in the currency that belong to a valid price list, the
\* rows of no price list not being among them; when there are any, the
\* calculated price is the first of them in insertion order with the lowest
\* amount, whichever list it belongs to and whatever the amounts of the rows
\* of no price list.
C21_LowestOfValidLists ==
    \A i \in Positions : Resolved(i) =>
        (ValidListRows(i) # {} => CalculatedIsFirstLowest(i, ValidListRows(i)))

\* Two valid price lists hold the same lowest amount and a money amount of
\* no price list is lower: the calculated price is the row of the first list.
C21_Witness ==
    /\ Resolved(1)
    /\ \E a \in ValidListRows(1), b \in ValidListRows(1), m \in StandaloneOf(1) :
          /\ a.price_list_id # b.price_list_id
          /\ a.amount = b.amount
          /\ \A n \in ValidListRows(1) : a.amount <= n.amount
          /\ m.amount < a.amount
          /\ CalculatedId(1) = "ma_pl_1"

\* C22: when the context has a rule and no standalone money amount matches
\* it exactly, a standalone money amount of which the context satisfies no
\* rule, the default one without rules included, is never the original
\* price; when the context satisfies no rule of any standalone money amount
\* of the price set in the currency, there is no original price.
C22_ZeroMatchNeverSelected ==
    \A i \in Positions : Resolved(i) =>
        ((ContextEntries # {} /\ ExactRows(i) = {} /\ NotOverridden(i)) =>
            /\ \A m \in StandaloneOf(i) : SatisfiedRules(m) = 0 => OriginalId(i) # m.id
            /\ Survivors(i) = {} =>
                  /\ OriginalId(i) = Null
                  /\ selectOriginal(price_set_ids[i], context) = {})

\* The price set has the default money amount and one with three rules of
\* which the context, with one rule, satisfies none: no original price.
C22_Witness ==
    /\ pc = "done"
    /\ Cardinality(ContextEntries) = 1 /\ ExactRows(1) = {}
    /\ \E d \in StandaloneOf(1), m \in StandaloneOf(1) :
          /\ d.number_rules = 0
          /\ m.number_rules = 3 /\ SatisfiedRules(m) = 0
    /\ OriginalId(1) = Null

\* The lists of the input of upsertCondition, in the order of the cases.
TypeOrder ==
    <<PRODUCTS, PRODUCT_COLLECTIONS, PRODUCT_TYPES, PRODUCT_TAGS, CUSTOMER_GROUPS>>

\* The k-th list of the input of the request is there and has an item.
NonEmptyList(k) ==
    /\ request.data[TypeOrder[k]].defined
    /\ request.data[TypeOrder[k]].items # <<>>

\* C23: resolveConditionType_(data) gives the type and the ids of the first
\* list of data with an item, in the order products, product_collections,
\* product_types, product_tags, customer_groups, whatever the later lists
\* hold, and gives undefined exactly when each of the five lists is absent
\* or empty; upsertCondition resolves the type of its data so.
C23_FirstNonEmptyList ==
    LET resolved == resolveConditionType_(request.data)
    IN  /\ resolved = Undefined <=> \A k \in DOMAIN TypeOrder : ~NonEmptyList(k)
        /\ \A k \in DOMAIN TypeOrder :
              (NonEmptyList(k) /\ \A j \in 1..(k - 1) : ~NonEmptyList(j)) =>
                  /\ resolved.type = TypeOrder[k]
                  /\ resolved.resource_ids = request.data[TypeOrder[k]].items
        /\ outcome.op = "upsertCondition" => outcome.resolved = resolved

\* upsertCondition has resolved product_types for data with products empty,
\* product_collections absent and ids in product_types, product_tags and
\* customer_groups.
C23_Witness ==
    /\ outcome.op = "upsertCondition"
    /\ request.data.products = List(<<>>)
    /\ request.data.product_collections = Absent
    /\ NonEmptyList(3) /\ NonEmptyList(4) /\ NonEmptyList(5)
    /\ outcome.resolved = [type |-> PRODUCT_TYPES, resource_ids |-> <<"type_1">>]

\* No list of the input of the request has an item.
NoList == \A k \in DOMAIN TypeOrder : ~NonEmptyList(k)

\* C24: upsertCondition with data of which none of the five lists has an
\* item fails with INVALID_DATA before any repository is used: no discount
\* is looked up, and no condition and no resource is created, changed or
\* removed.
C24_NoListNoAccess ==
    [][(NoList /\ outcome'.op = "upsertCondition") =>
          /\ outcome'.error = "INVALID_DATA"
          /\ outcome'.trace = <<>>
          /\ discount_condition' = discount_condition
          /\ discount' = discount]_vars

\* upsertCondition has failed without a repository call for the id of a
\* discount there is and the id of one of its conditions, the lists being
\* empty or absent.
C24_Witness ==
    /\ outcome = Outcome("upsertCondition", "INVALID_DATA", <<>>, Undefined)
    /\ request.discountIdOrDiscount = ById("d_1")
    /\ request.data.id = "c_1" /\ "c_1" \in DOMAIN discount_condition
    /\ request.data.products = List(<<>>)
    /\ request.data.customer_groups = Absent

\* The step is a call of upsertCondition.
UpsertStep == outcome'.op = "upsertCondition"

\* The conditions other than the given one are as before the step.
OthersUnchanged(id) ==
    \A c \in DOMAIN discount_condition \ {id} :
        c \in DOMAIN discount_condition' /\ discount_condition'[c] = discount_condition[c]

\* The condition of the id of the request exists and is of the rule of the
\* discount of the request.
ConditionOfDiscount ==
    LET arg == request.discountIdOrDiscount
    IN  /\ request.data.id \in DOMAIN discount_condition
        /\ arg.id \in DOMAIN discount
        /\ discount_condition[request.data.id].discount_rule_id = discount[arg.id].rule_id

\* The discount of the request is there: the id is the one of a discount,
\* or the discount passed has a rule_id.
DiscountGiven ==
    LET arg == request.discountIdOrDiscount
    IN  IF arg.kind = "string" THEN arg.id \in DOMAIN discount
        ELSE arg.rule_id # Null /\ arg.rule_id # ""

\* C25: upsertCondition with data.id set never creates a condition.  When
\* the condition of this id exists for the discount, the condition keeps its
\* rule, type and operator, its resources of the resolved type become the
\* resolved ids, and no other condition changes; when there is no such
\* condition, or it is of another discount, the call fails with NOT_FOUND
\* and nothing is created or changed.  A condition is created only when
\* data.id is not set, and then it has the resolved ids as resources.
C25_IdNeverCreates ==
    [][UpsertStep =>
          LET id == request.data.id
              resolved == outcome'.resolved
          IN  /\ ~Falsy(id) =>
                    /\ DOMAIN discount_condition' = DOMAIN discount_condition
                    /\ OthersUnchanged(id)
                    /\ outcome'.error # Null => discount_condition' = discount_condition
                    /\ (~NoList /\ DiscountGiven /\ ~ConditionOfDiscount) =>
                          outcome'.error = "NOT_FOUND"
                    /\ (~NoList /\ DiscountGiven /\ ConditionOfDiscount) =>
                          /\ outcome'.error = Null
                          /\ discount_condition'[id].discount_rule_id =
                                discount_condition[id].discount_rule_id
                          /\ discount_condition'[id].type = discount_condition[id].type
                          /\ discount_condition'[id].operator =
                                discount_condition[id].operator
                          /\ {r[2] : r \in {x \in discount_condition'[id].resources :
                                                x[1] = resolved.type}} =
                                Range(resolved.resource_ids)
              /\ DOMAIN discount_condition' # DOMAIN discount_condition =>
                    /\ Falsy(id)
                    /\ OthersUnchanged(id)
                    /\ \E c \in DOMAIN discount_condition' \ DOMAIN discount_condition :
                          /\ DOMAIN discount_condition' = DOMAIN discount_condition \cup {c}
                          /\ discount_condition'[c].type = resolved.type
                          /\ discount_condition'[c].resources =
                                {<<resolved.type, r>> : r \in Range(resolved.resource_ids)}]_vars

\* upsertCondition with the id of the condition c_1 of d_1 and ids in
\* products has replaced the product of c_1 and left c_2 as it was.
C25_Witness ==
    /\ outcome.op = "upsertCondition" /\ outcome.error = Null
    /\ request.discountIdOrDiscount = ById("d_1")
    /\ request.data.id = "c_1"
    /\ DOMAIN discount_condition = {"c_1", "c_2"}
    /\ discount_condition["c_1"].resources = {<<PRODUCTS, "b">>, <<PRODUCTS, "c">>}
    /\ discount_condition["c_2"].resources = {<<CUSTOMER_GROUPS, "a">>}

\* C26: remove(discountConditionId) deletes the condition of this id when
\* there is one and leaves every other condition as it was; when there is
\* none it ends without error and changes nothing; after it there is no
\* condition of this id, so a second remove of the same id changes nothing.
C26_RemoveOnlyThatCondition ==
    [][\A id \in ConditionIds : remove(id) =>
          /\ outcome'.error = Null
          /\ id \notin DOMAIN discount_condition'
          /\ DOMAIN discount_condition' = DOMAIN discount_condition \ {id}
          /\ OthersUnchanged(id)
          /\ id \notin DOMAIN discount_condition =>
                discount_condition' = discount_condition]_vars

\* remove has deleted c_1, of two conditions, and c_2 is as it was.
C26_Witness ==
    /\ outcome = Outcome("remove", Null,
                         <<"discountCondition.findOne", "discountCondition.remove">>,
                         Undefined)
    /\ DOMAIN discount_condition = {"c_2"}
    /\ discount_condition["c_2"] =
          DiscountCondition("c_2", "r_2", CUSTOMER_GROUPS, "not_in",
                            {<<CUSTOMER_GROUPS, "a">>})

\* C27: the createShippingMethods step, once run, has made one call of the
\* createShippingMethods of the service, with the transaction manager of
\* the workflow context and the one entry built from its inputs (option,
\* data, price, config), and has returned what the service returned under
\* createdShippingMethods.
C27_OneEntryCreated ==
    step_result.status # "idle" =>
        LET data_ == step_arguments.data
            calls == {k \in DOMAIN service.calls :
                         service.calls[k].method = "createShippingMethods"}
        IN  /\ step_result.status = "done"
            /\ \E k \in calls :
                  /\ calls = {k}
                  /\ service.calls[k].manager = step_arguments.context.transactionManager
                  /\ service.calls[k].argument =
                        << [option |-> data_.input.shippingOption,
                            data |-> data_.shippingOptionData,
                            price |-> data_.price,
                            config |-> data_.input.shippingMethodConfig] >>
                  /\ step_result.createdShippingMethods =
                        Created(service.calls[k].argument)

====
